---------------------------- MODULE Spec2Model ----------------------------
(***************************************************************************)
(* The log-structured store of src/src/lib.rs (module `store`): KvStore,   *)
(* its RwLock-guarded InnerStructs, the segment files of the database      *)
(* directory, and the operations set / get / remove / open / drop.         *)
(*                                                                         *)
(* A segment file is a sequence of chunks.  A chunk is what one write_all  *)
(* left in the file: the record and the number of its encoded bytes that  *)
(* reached the file (all of them, or fewer when write_all failed).         *)
(* Offsets and sizes are byte counts, computed from the MessagePack        *)
(* encoding rmp_serde::to_vec produces.                                    *)
(*                                                                         *)
(* The initial state is the handle KvStore::new builds on a fresh          *)
(* directory.  Worker threads call set, get and remove on it; the owner    *)
(* thread releases it (drop) or the process stops, and the directory is    *)
(* opened again.                                                           *)
(***************************************************************************)
EXTENDS Integers, Sequences, FiniteSets, TLC

\* ------------------------------------------------------------- bounds
Keys == {"k1", "k2"}
Values == {"a", "b"}
Threads == {"t1", "t2"}
\* set/remove calls issued on one handle
MaxWrites == 3
\* appends that the file system fails, per handle
MaxFaults == 1
\* bytes a failing write_all may have written before it failed
TornCut == 7
\* a value standing for a large blob, and its length in bytes
LargeValue == "L"
LargeLen == 524288

ROTATION_THRESHOLD == 1000000

Main == "main"
None == "None"

\* ------------------------------------------------------------- state
VARIABLES
    dir,                 \* the database directory: file name -> chunks
    key_map,             \* InnerStructs.key_map: key -> ValueData
    bytes_in_last_file,  \* InnerStructs.bytes_in_last_file
    active_file,         \* InnerStructs.active_file
    inactive_files,      \* InnerStructs.inactive_files
    readers,             \* threads holding a read guard of `inner`
    writer,              \* thread holding the write guard of `inner`, or None
    poisoned,            \* the RwLock's poison flag
    handle,              \* "open" | "dropping" | "closed" | "opening"
    pc,                  \* per worker thread: where it is in its call
    op,                  \* per worker thread: the call it is executing
    out,                 \* per worker thread: the call's result
    mpc,                 \* where the owner thread is in drop / open
    scanned,             \* the owner's local map (set_map / key_map of open)
    mres,                \* how the owner's last drop / open ended
    closedBy,            \* how the handle was last released
    hist,                \* per key: values of the appends that succeeded
    acked,               \* per key: how many of hist[k] have returned Ok
    mark,                \* per thread: hist position noted for its call
    before,              \* per key: get's answer when the handle was released
    nWrites,             \* set/remove calls issued on this handle
    nFailed,             \* appends that failed on this handle
    prior                \* per thread: get's answer for its key when it took the write guard

vars == <<dir, key_map, bytes_in_last_file, active_file, inactive_files,
          readers, writer, poisoned, handle, pc, op, out, mpc, scanned,
          mres, closedBy, hist, acked, mark, before, nWrites, nFailed, prior>>

inner == <<key_map, bytes_in_last_file, active_file, inactive_files>>
lock == <<readers, writer, poisoned>>
ghost == <<hist, acked, mark, before, nWrites, nFailed, prior>>

\* ------------------------------------------------------------- records
SetRec(k, v) == [tag |-> "Set", key |-> k, val |-> v]
RmRec(k) == [tag |-> "Rm", key |-> k, val |-> None]

\* bytes of a string (LargeValue abbreviates a blob of LargeLen bytes)
StrBytes(s) == IF s = LargeValue THEN LargeLen ELSE Len(s)

\* MessagePack str: fixstr, str8, str16, str32
StrEnc(s) ==
    LET n == StrBytes(s) IN
    IF n <= 31 THEN 1 + n
    ELSE IF n <= 255 THEN 2 + n
    ELSE IF n <= 65535 THEN 3 + n
    ELSE 5 + n

\* rmp_serde::to_vec(&KvRecord): {"Set": [k, v]} and {"Rm": k}; its length
SerializedLen(r) ==
    IF r.tag = "Set"
    THEN 1 + StrEnc("Set") + 1 + StrEnc(r.key) + StrEnc(r.val)
    ELSE 1 + StrEnc("Rm") + StrEnc(r.key)

\* ------------------------------------------------------------- files
Chunk(r, n) == [rec |-> r, n |-> n]
Complete(c) == c.n = SerializedLen(c.rec)

RECURSIVE FileLen(_)
FileLen(f) == IF f = <<>> THEN 0 ELSE f[1].n + FileLen(Tail(f))

\* the byte offset at which chunk i of file f starts
ChunkStart(f, i) == FileLen(SubSeq(f, 1, i - 1))

MaxOf(S) == IF S = {} THEN 0 ELSE CHOOSE x \in S : \A y \in S : y <= x

\* alloc_new_file: a file named after the clock, created empty
AllocName(d) == MaxOf(DOMAIN d) + 1
CreateFile(d, name) == [x \in DOMAIN d \cup {name} |-> IF x = name THEN <<>> ELSE d[x]]

\* file.write_all in append mode: n bytes of r reach the end of the file
AppendBytes(d, name, r, n) ==
    IF n = 0 THEN d
    ELSE [d EXCEPT ![name] = Append(@, Chunk(r, n))]

\* ------------------------------------------------------------- results
Ok(v) == [k |-> "Ok", v |-> v]
Err(e) == [k |-> "Err", v |-> e]
Panicked == [k |-> "Panic", v |-> "-"]
NoResult == [k |-> "-", v |-> "-"]
NoOp == [name |-> "-", key |-> "-", val |-> "-"]

ValueData(sz, off, path) == [size |-> sz, offset |-> off, file_path |-> path]

Insert(m, k, x) == [y \in DOMAIN m \cup {k} |-> IF y = k THEN x ELSE m[y]]
Remove(m, k) == [y \in DOMAIN m \ {k} |-> m[y]]
EmptyMap == [y \in {} |-> 0]

\* ------------------------------------------------------------- get
\* the body of get once the read guard is held: lookup, open, seek,
\* read_exact, from_slice, match
GetResult(km, d, k) ==
    IF k \notin DOMAIN km THEN Ok(None)
    ELSE LET vd == km[k] IN
         IF vd.file_path \notin DOMAIN d THEN Err("IOError")
         ELSE LET f == d[vd.file_path] IN
              IF vd.offset + vd.size > FileLen(f) THEN Err("IOError")
              ELSE LET hit == {i \in 1..Len(f) :
                                  /\ ChunkStart(f, i) = vd.offset
                                  /\ Complete(f[i])
                                  /\ f[i].n <= vd.size}
                   IN IF hit = {} THEN Err("SerializationError")
                      ELSE LET c == f[CHOOSE i \in hit : TRUE] IN
                           IF c.rec.tag = "Set" THEN Ok(c.rec.val) ELSE Ok(None)

\* ------------------------------------------------------------- replay
\* the segments deserialize_files is given: inactive files, then the active
ReplayFiles == inactive_files \o <<active_file>>

\* deserialize_files: every record of every file, in order, with its
\* ValueData; err when a file cannot be read or a record does not decode
RECURSIVE DeserializeFile(_, _, _, _)
DeserializeFile(name, f, i, acc) ==
    IF i > Len(f) THEN [err |-> FALSE, items |-> acc]
    ELSE IF ~Complete(f[i]) THEN [err |-> TRUE, items |-> acc]
    ELSE DeserializeFile(name, f, i + 1,
            Append(acc, [rec |-> f[i].rec,
                         vd |-> ValueData(f[i].n, ChunkStart(f, i), name)]))

RECURSIVE DeserializeFiles(_, _, _)
DeserializeFiles(d, files, acc) ==
    IF files = <<>> THEN [err |-> FALSE, items |-> acc]
    ELSE IF Head(files) \notin DOMAIN d THEN [err |-> TRUE, items |-> acc]
    ELSE LET r == DeserializeFile(Head(files), d[Head(files)], 1, acc) IN
         IF r.err THEN r ELSE DeserializeFiles(d, Tail(files), r.items)

\* the closure of open: key_map.insert(key, value_data) for Set and for Rm
RECURSIVE OpenKeyMap(_, _)
OpenKeyMap(items, m) ==
    IF items = <<>> THEN m
    ELSE OpenKeyMap(Tail(items), Insert(m, Head(items).rec.key, Head(items).vd))

\* the closure of compact_files: set_map.insert(k, Some(v)) / insert(k, None)
RECURSIVE CompactSetMap(_, _)
CompactSetMap(items, m) ==
    IF items = <<>> THEN m
    ELSE CompactSetMap(Tail(items),
                       Insert(m, Head(items).rec.key, Head(items).rec.val))

\* ------------------------------------------------------------- new
\* the orders in which read_dir may enumerate the files of d
Enumerations(d) ==
    {s \in [1..Cardinality(DOMAIN d) -> DOMAIN d] :
        \A i, j \in DOMAIN s : i # j => s[i] # s[j]}

\* KvStore::new on directory d whose .kvs files are enumerated in order e
NewStore(d, e) ==
    IF e = <<>>
    THEN LET name == AllocName(d) IN
         [dir |-> CreateFile(d, name), key_map |-> EmptyMap, active_file |-> name,
          inactive_files |-> <<>>, bytes_in_last_file |-> 0]
    ELSE [dir |-> d, key_map |-> EmptyMap, active_file |-> e[Len(e)],
          inactive_files |-> SubSeq(e, 1, Len(e) - 1),
          bytes_in_last_file |-> FileLen(d[e[Len(e)]])]

EmptyDir == [x \in {} |-> <<>>]

\* the handle KvStore::new builds on a fresh directory
Init ==
    LET s == NewStore(EmptyDir, <<>>) IN
    /\ dir = s.dir
    /\ key_map = s.key_map
    /\ bytes_in_last_file = s.bytes_in_last_file
    /\ active_file = s.active_file
    /\ inactive_files = s.inactive_files
    /\ readers = {}
    /\ writer = None
    /\ poisoned = FALSE
    /\ handle = "open"
    /\ pc = [t \in Threads |-> "idle"]
    /\ op = [t \in Threads |-> NoOp]
    /\ out = [t \in Threads |-> NoResult]
    /\ mpc = "none"
    /\ scanned = EmptyMap
    /\ mres = "none"
    /\ closedBy = "none"
    /\ hist = [k \in Keys |-> <<>>]
    /\ acked = [k \in Keys |-> 0]
    /\ mark = [t \in Threads |-> 0]
    /\ before = [k \in Keys |-> Ok(None)]
    /\ nWrites = 0
    /\ nFailed = 0
    /\ prior = [t \in Threads |-> NoResult]

\* ------------------------------------------------------------- calls
\* a worker thread calls set, get or remove on the shared handle
Call(t) ==
    /\ handle = "open"
    /\ pc[t] = "idle"
    /\ \E k \in Keys :
         \/ /\ op' = [op EXCEPT ![t] = [name |-> "get", key |-> k, val |-> "-"]]
            /\ pc' = [pc EXCEPT ![t] = "get_lock"]
            /\ mark' = [mark EXCEPT ![t] = acked[k]]
            /\ UNCHANGED nWrites
         \/ /\ nWrites < MaxWrites
            /\ op' = [op EXCEPT ![t] = [name |-> "remove", key |-> k, val |-> "-"]]
            /\ pc' = [pc EXCEPT ![t] = "get_lock"]
            /\ mark' = [mark EXCEPT ![t] = acked[k]]
            /\ nWrites' = nWrites + 1
         \/ /\ nWrites < MaxWrites
            /\ \E v \in Values :
                 op' = [op EXCEPT ![t] = [name |-> "set", key |-> k, val |-> v]]
            /\ pc' = [pc EXCEPT ![t] = "wc_lock"]
            /\ mark' = [mark EXCEPT ![t] = 0]
            /\ nWrites' = nWrites + 1
    /\ out' = [out EXCEPT ![t] = NoResult]
    /\ UNCHANGED <<dir, inner, lock, handle, mpc, scanned, mres, closedBy,
                   hist, acked, before, nFailed, prior>>

\* set of a large blob (the workload that fills a segment)
CallSetLarge(t) ==
    /\ handle = "open"
    /\ pc[t] = "idle"
    /\ nWrites < MaxWrites
    /\ \E k \in Keys :
         op' = [op EXCEPT ![t] = [name |-> "set", key |-> k, val |-> LargeValue]]
    /\ pc' = [pc EXCEPT ![t] = "wc_lock"]
    /\ mark' = [mark EXCEPT ![t] = 0]
    /\ nWrites' = nWrites + 1
    /\ out' = [out EXCEPT ![t] = NoResult]
    /\ UNCHANGED <<dir, inner, lock, handle, mpc, scanned, mres, closedBy,
                   hist, acked, before, nFailed, prior>>

\* get as it would be if the guard of line 184 were dropped after the lookup
GetLock_NoGuard(t) ==
    /\ pc[t] = "get_lock"
    /\ writer = None
    /\ IF poisoned
       THEN /\ out' = [out EXCEPT ![t] =
                          IF op[t].name = "remove" THEN Err("NonExistantKey")
                          ELSE Err("SerializationError")]
            /\ pc' = [pc EXCEPT ![t] = "ret"]
       ELSE /\ pc' = [pc EXCEPT ![t] = "get_read"]
            /\ UNCHANGED out
    /\ UNCHANGED <<dir, inner, lock, handle, op, mpc, scanned, mres,
                   closedBy, ghost>>

\* get, line 184: self.inner.read()? ; the guard lives to the end of the if-let
GetLock(t) ==
    /\ pc[t] = "get_lock"
    /\ writer = None
    /\ IF poisoned
       THEN /\ out' = [out EXCEPT ![t] =
                          IF op[t].name = "remove" THEN Err("NonExistantKey")
                          ELSE Err("SerializationError")]
            /\ pc' = [pc EXCEPT ![t] = "ret"]
            /\ UNCHANGED readers
       ELSE /\ readers' = readers \cup {t}
            /\ pc' = [pc EXCEPT ![t] = "get_read"]
            /\ UNCHANGED out
    /\ UNCHANGED <<dir, inner, writer, poisoned, handle, op, mpc, scanned, mres,
                   closedBy, ghost>>

\* get, lines 184-200, under the read guard; then remove's match on it (203-208)
GetRead(t) ==
    /\ pc[t] = "get_read"
    /\ readers' = readers \ {t}
    /\ LET r == GetResult(key_map, dir, op[t].key) IN
       IF op[t].name = "get"
       THEN /\ out' = [out EXCEPT ![t] = r]
            /\ pc' = [pc EXCEPT ![t] = "ret"]
       ELSE IF r.k = "Ok" /\ r.v # None
            THEN /\ pc' = [pc EXCEPT ![t] = "wc_lock"]
                 /\ UNCHANGED out
            ELSE /\ out' = [out EXCEPT ![t] = Err("NonExistantKey")]
                 /\ pc' = [pc EXCEPT ![t] = "ret"]
    /\ UNCHANGED <<dir, inner, writer, poisoned, handle, op, mpc, scanned, mres,
                   closedBy, ghost>>

\* the record a set or remove hands to write_command
Command(o) == IF o.name = "set" THEN SetRec(o.key, o.val) ELSE RmRec(o.key)

NewValueData_OffsetZero(r) == ValueData(SerializedLen(r), 0, active_file)

\* the entry write_command inserts for its record (lines 299-306)
NewValueData(r) == ValueData(SerializedLen(r), bytes_in_last_file, active_file)

\* write_command, lines 297-306: serialize, take the write guard, insert
WcLock(t) ==
    /\ pc[t] = "wc_lock"
    /\ writer = None
    /\ readers = {}
    /\ IF poisoned
       THEN /\ out' = [out EXCEPT ![t] = Err("SerializationError")]
            /\ pc' = [pc EXCEPT ![t] = "ret"]
            /\ UNCHANGED <<writer, key_map, prior>>
       ELSE /\ writer' = t
            /\ key_map' = Insert(key_map, op[t].key, NewValueData(Command(op[t])))
            /\ pc' = [pc EXCEPT ![t] = "wc_append"]
            /\ prior' = [prior EXCEPT ![t] = GetResult(key_map, dir, op[t].key)]
            /\ UNCHANGED out
    /\ UNCHANGED <<dir, bytes_in_last_file, active_file, inactive_files, readers,
                   poisoned, handle, op, mpc, scanned, mres, closedBy,
                   hist, acked, mark, before, nWrites, nFailed>>

\* the byte counts a failing write_all may leave behind
TornLens(size) == {n \in {0, TornCut} : n < size}

\* what bytes_in_last_file becomes after a successful append (line 313)
NextBytes(r) == bytes_in_last_file + SerializedLen(r)

\* write_command, lines 307-314: open the active file, write_all, count
WcAppend(t) ==
    /\ pc[t] = "wc_append"
    /\ LET r == Command(op[t]) IN
       \/ \* OpenOptions::open fails: unwrap panics under the write guard
          /\ nFailed < MaxFaults
          /\ poisoned' = TRUE
          /\ out' = [out EXCEPT ![t] = Panicked]
          /\ nFailed' = nFailed + 1
          /\ UNCHANGED <<dir, bytes_in_last_file, hist, mark>>
       \/ \* write_all fails after n bytes
          /\ nFailed < MaxFaults
          /\ \E n \in TornLens(SerializedLen(r)) :
               dir' = AppendBytes(dir, active_file, r, n)
          /\ out' = [out EXCEPT ![t] = Err("IOError")]
          /\ nFailed' = nFailed + 1
          /\ UNCHANGED <<bytes_in_last_file, poisoned, hist, mark>>
       \/ \* write_all succeeds
          /\ dir' = AppendBytes(dir, active_file, r, SerializedLen(r))
          /\ bytes_in_last_file' = NextBytes(r)
          /\ out' = [out EXCEPT ![t] = Ok("-")]
          /\ hist' = [hist EXCEPT ![r.key] = Append(@, r.val)]
          /\ mark' = [mark EXCEPT ![t] = Len(hist[r.key]) + 1]
          /\ UNCHANGED <<poisoned, nFailed>>
    /\ writer' = None
    /\ pc' = [pc EXCEPT ![t] = "ret"]
    /\ UNCHANGED <<key_map, active_file, inactive_files, readers, handle, op,
                   mpc, scanned, mres, closedBy, acked, before, nWrites,
                   prior>>

\* the call returns to its caller
Return(t) ==
    /\ pc[t] = "ret"
    /\ pc' = [pc EXCEPT ![t] = "idle"]
    /\ acked' = IF op[t].name \in {"set", "remove"} /\ out[t] = Ok("-")
                   /\ mark[t] > acked[op[t].key]
                THEN [acked EXCEPT ![op[t].key] = mark[t]]
                ELSE acked
    /\ op' = [op EXCEPT ![t] = NoOp]
    /\ out' = [out EXCEPT ![t] = NoResult]
    /\ mark' = [mark EXCEPT ![t] = 0]
    /\ prior' = [prior EXCEPT ![t] = NoResult]
    /\ UNCHANGED <<dir, inner, lock, handle, mpc, scanned, mres, closedBy,
                   hist, before, nWrites, nFailed>>

\* ------------------------------------------------------------- owner
\* the process image is gone: no handle, no lock, no thread in a call
Released ==
    /\ key_map' = EmptyMap
    /\ bytes_in_last_file' = 0
    /\ active_file' = 0
    /\ inactive_files' = <<>>
    /\ readers' = {}
    /\ writer' = None
    /\ poisoned' = FALSE
    /\ handle' = "closed"
    /\ pc' = [t \in Threads |-> "idle"]
    /\ op' = [t \in Threads |-> NoOp]
    /\ out' = [t \in Threads |-> NoResult]
    /\ mark' = [t \in Threads |-> 0]
    /\ prior' = [t \in Threads |-> NoResult]
    /\ mpc' = "none"
    /\ scanned' = EmptyMap

\* what write() does when the calling thread still holds a read guard of the
\* same RwLock: it never returns; it blocks forever or it panics
SelfLockOutcomes == {"deadlock", "panic"}

\* the owner releases the handle: Drop::drop calls compact_files
DropBegin ==
    /\ handle = "open"
    /\ \A t \in Threads : pc[t] = "idle"
    /\ handle' = "dropping"
    /\ mpc' = "cf_rlock"
    /\ before' = [k \in Keys |-> GetResult(key_map, dir, k)]
    /\ UNCHANGED <<dir, inner, lock, pc, op, out, scanned, mres, closedBy,
                   hist, acked, mark, prior, nWrites, nFailed>>

\* compact_files, line 363: self.inner.read()?
CfRLock ==
    /\ handle = "dropping"
    /\ mpc = "cf_rlock"
    /\ writer = None
    /\ IF poisoned
       THEN /\ Released
            /\ mres' = "drop_loud"
            /\ closedBy' = "drop"
       ELSE /\ readers' = readers \cup {Main}
            /\ mpc' = "cf_scan"
            /\ UNCHANGED <<inner, writer, poisoned, handle, pc, op, out, mark, prior,
                           scanned, mres, closedBy>>
    /\ UNCHANGED <<dir, hist, acked, before, nWrites, nFailed>>

\* compact_files, lines 364-376: build set_map from every segment
CfScan ==
    /\ handle = "dropping"
    /\ mpc = "cf_scan"
    /\ LET r == DeserializeFiles(dir, ReplayFiles, <<>>) IN
       IF r.err
       THEN /\ Released
            /\ mres' = "drop_loud"
            /\ closedBy' = "drop"
       ELSE /\ scanned' = CompactSetMap(r.items, EmptyMap)
            /\ mpc' = "cf_wlock"
            /\ UNCHANGED <<inner, lock, handle, pc, op, out, mark, prior, mres, closedBy>>
    /\ UNCHANGED <<dir, hist, acked, before, nWrites, nFailed>>

\* compact_files, line 377: self.inner.write()? with the guard of line 363 alive
CfWLock ==
    /\ handle = "dropping"
    /\ mpc = "cf_wlock"
    /\ Main \in readers
    /\ \E o \in SelfLockOutcomes :
         IF o = "deadlock"
         THEN /\ mpc' = "stuck"
              /\ UNCHANGED <<inner, lock, handle, pc, op, out, mark, prior, scanned,
                             mres, closedBy>>
         ELSE /\ Released
              /\ mres' = "drop_panic"
              /\ closedBy' = "drop"
    /\ UNCHANGED <<dir, hist, acked, before, nWrites, nFailed>>

\* the process stops without running drop; only the directory survives
Crash ==
    /\ handle # "closed"
    /\ Released
    /\ mres' = "none"
    /\ closedBy' = "crash"
    /\ UNCHANGED <<dir, hist, acked, before, nWrites, nFailed>>

\* open, line 343: KvStore::new on the directory as it is
OpenNew ==
    /\ handle = "closed"
    /\ \E e \in Enumerations(dir) :
         LET s == NewStore(dir, e) IN
         /\ dir' = s.dir
         /\ key_map' = s.key_map
         /\ bytes_in_last_file' = s.bytes_in_last_file
         /\ active_file' = s.active_file
         /\ inactive_files' = s.inactive_files
    /\ handle' = "opening"
    /\ mpc' = "open_scan"
    /\ mres' = "none"
    /\ UNCHANGED <<lock, pc, op, out, scanned, closedBy, ghost>>

\* open, lines 344-356: take the read guard, replay every segment
OpenScan ==
    /\ handle = "opening"
    /\ mpc = "open_scan"
    /\ LET r == DeserializeFiles(dir, ReplayFiles, <<>>) IN
       IF r.err
       THEN /\ Released
            /\ mres' = "open_err"
       ELSE /\ readers' = readers \cup {Main}
            /\ scanned' = OpenKeyMap(r.items, EmptyMap)
            /\ mpc' = "open_wlock"
            /\ UNCHANGED <<inner, writer, poisoned, handle, pc, op, out, mark, prior, mres>>
    /\ UNCHANGED <<dir, closedBy, hist, acked, before, nWrites, nFailed>>

\* open, line 357: store.inner.write()? with the guard of line 345 alive
OpenWLock ==
    /\ handle = "opening"
    /\ mpc = "open_wlock"
    /\ Main \in readers
    /\ \E o \in SelfLockOutcomes :
         IF o = "deadlock"
         THEN /\ mpc' = "stuck"
              /\ UNCHANGED <<inner, lock, handle, pc, op, out, mark, prior, scanned, mres>>
         ELSE /\ Released
              /\ mres' = "open_panic"
    /\ UNCHANGED <<dir, closedBy, hist, acked, before, nWrites, nFailed>>

\* ------------------------------------------------------------- behaviours
WorkerStep(t) ==
    \/ GetLock(t)
    \/ GetRead(t)
    \/ WcLock(t)
    \/ WcAppend(t)
    \/ Return(t)

OwnerStep ==
    \/ CfRLock
    \/ CfScan
    \/ CfWLock
    \/ OpenScan
    \/ OpenWLock

Next ==
    \/ \E t \in Threads : Call(t)
    \/ \E t \in Threads : WorkerStep(t)
    \/ DropBegin
    \/ OwnerStep
    \/ Crash
    \/ OpenNew

Spec == Init /\ [][Next]_vars

\* the workload of large values that fills the active segment
NextLarge ==
    \/ \E t \in Threads : CallSetLarge(t)
    \/ \E t \in Threads : WcLock(t)
    \/ \E t \in Threads : WcAppend(t)
    \/ \E t \in Threads : Return(t)

LargeSpec == Init /\ [][NextLarge]_vars

\* ------------------------------------------------------------- claims
\* what a reference map holds for k: the value of the last append that
\* succeeded for k (None for a remove, and when there was none)
RefValue(k) == IF hist[k] = <<>> THEN None ELSE hist[k][Len(hist[k])]

\* the value of the last write to k that returned Ok to its caller
AckedValue(k) == IF acked[k] = 0 THEN None ELSE hist[k][acked[k]]

\* the values get(k) may observe once the first `from` writes are acknowledged
Observable(k, from) ==
    {IF i = 0 THEN None ELSE hist[k][i] : i \in from..Len(hist[k])}

Quiet == handle = "open" /\ writer = None

\* C1: on an open handle, after any sequence of set and remove calls that
\* all succeeded, get(k) returns for every key what a reference map returns:
\* the value of the latest set, or None after a remove or when never set.
C1_GetMatchesReferenceMap ==
    (Quiet /\ nFailed = 0) =>
        \A k \in Keys : GetResult(key_map, dir, k) = Ok(RefValue(k))

\* a key was set, removed and set again, and another key was set, all Ok
C1_Witness ==
    /\ Quiet
    /\ nFailed = 0
    /\ \A t \in Threads : pc[t] = "idle"
    /\ \E k \in Keys : Len(hist[k]) = 2 /\ hist[k][1] # None /\ hist[k][2] = None
    /\ \E k \in Keys : Len(hist[k]) = 1 /\ hist[k][1] # None

\* C2: remove(k) on a key that is absent (never set, or its latest record a
\* tombstone) returns Err(NonExistantKey) and changes nothing: no record is
\* appended, bytes_in_last_file and the index stay as they were.
C2_RemoveAbsentFails ==
    [][\A t \in Threads :
          (/\ pc[t] = "get_read"
           /\ op[t].name = "remove"
           /\ RefValue(op[t].key) = None
           /\ pc'[t] # pc[t]
           /\ handle' = "open")
          => (/\ pc'[t] = "ret"
              /\ out'[t] = Err("NonExistantKey")
              /\ UNCHANGED <<dir, key_map, bytes_in_last_file>>)]_vars

\* C3: after the handle was released (drop) and the directory is opened
\* again, open hands out a handle on which get returns for every key what it
\* returned immediately before the release.
C3_ReopenSameResults ==
    closedBy = "drop" =>
        /\ ~(handle = "opening" /\ mpc = "stuck")
        /\ mres # "open_panic"
        /\ handle = "open" =>
              \A k \in Keys : GetResult(key_map, dir, k) = before[k]

\* C4: after a stop without drop, open recovers the directory: it hands out a
\* handle on which get returns, for every key, the last acknowledged write.
C4_CrashRecovers ==
    closedBy = "crash" =>
        /\ ~(handle = "opening" /\ mpc = "stuck")
        /\ mres # "open_panic"
        /\ handle = "open" =>
              \A k \in Keys : GetResult(key_map, dir, k) = Ok(AckedValue(k))

\* C5: a get(k) invoked after a set(k,v) or remove(k) has returned Ok
\* observes that write or a later one on k, never anything else.
C5_GetObservesAckedWrite ==
    \A t \in Threads :
        (/\ pc[t] = "ret"
         /\ op[t].name = "get"
         /\ mark[t] >= 1
         /\ out[t].k = "Ok")
        => out[t].v \in Observable(op[t].key, mark[t])

\* C6: a get(k) running while another thread's set(k,_) is in progress, on a
\* key that was set before and never removed, returns Some of a value written
\* to k; it returns neither None nor an error nor part of a record.
C6_ConcurrentGetSeesWrittenValue ==
    \A t \in Threads :
        (/\ pc[t] = "ret"
         /\ op[t].name = "get"
         /\ mark[t] >= 1
         /\ ~poisoned
         /\ \A i \in 1..Len(hist[op[t].key]) : hist[op[t].key][i] # None
         /\ \E u \in Threads \ {t} :
               op[u].name = "set" /\ op[u].key = op[t].key)
        => /\ out[t].k = "Ok"
           /\ \E i \in 1..Len(hist[op[t].key]) : out[t].v = hist[op[t].key][i]

\* exactly one segment: one Set record for each key whose get answered a
\* value, carrying that value, and no other record
CompactedDir ==
    /\ Cardinality(DOMAIN dir) = 1
    /\ \A name \in DOMAIN dir :
         /\ \A i \in 1..Len(dir[name]) :
              /\ Complete(dir[name][i])
              /\ dir[name][i].rec.tag = "Set"
              /\ before[dir[name][i].rec.key] = Ok(dir[name][i].rec.val)
              /\ \A j \in 1..Len(dir[name]) :
                    dir[name][j].rec.key = dir[name][i].rec.key => i = j
         /\ \A k \in Keys :
              (before[k].k = "Ok" /\ before[k].v # None) =>
                  \E i \in 1..Len(dir[name]) : dir[name][i].rec.key = k

C8_DropTerminates ==
    /\ (handle = "dropping" /\ mpc # "none") => ENABLED OwnerStep
    /\ (handle = "closed" /\ closedBy = "drop" /\ mres = "drop_done") =>
          /\ Cardinality(DOMAIN dir) = 1
          /\ LET r == DeserializeFiles(dir, <<MaxOf(DOMAIN dir)>>, <<>>) IN
             /\ ~r.err
             /\ \A k \in Keys :
                  GetResult(OpenKeyMap(r.items, EmptyMap), dir, k) = before[k]

\* C9: the rotation policy runs after each append, so no append starts on an
\* active segment whose bytes_in_last_file already exceeds the threshold.
C9_NoAppendBeyondThreshold ==
    \A t \in Threads :
        pc[t] = "wc_append" => key_map[op[t].key].offset <= ROTATION_THRESHOLD

\* C10: once the lock is poisoned, every set, get and remove that completes
\* fails with SerializationError.
C10_PoisonedFailsSerialization ==
    [][\A t \in Threads :
          (poisoned /\ pc[t] # "ret" /\ pc'[t] = "ret")
          => out'[t] = Err("SerializationError")]_vars

\* C11: a set or remove that returns an I/O error leaves the index as it was:
\* right after the failed call, get for its key answers what it answered
\* when the call took the write guard.
C11_FailedAppendLeavesIndex ==
    [][\A t \in Threads :
          (pc[t] = "wc_append" /\ pc'[t] = "ret" /\ out'[t] = Err("IOError"))
          => GetResult(key_map', dir', op[t].key) = prior[t]]_vars

\* ------------------------------------------------------------- open on a directory
\* open is given a directory that already holds segments: up to MaxSegments
\* files, each up to MaxRecords complete records
MaxSegments == 2
MaxRecords == 2

Records == {SetRec(k, v) : k \in Keys, v \in Values} \cup {RmRec(k) : k \in Keys}

SegmentContents ==
    UNION {[1..n -> {Chunk(r, SerializedLen(r)) : r \in Records}] : n \in 0..MaxRecords}

Directories == UNION {[1..n -> SegmentContents] : n \in 1..MaxSegments}

\* no handle yet; the directory is what read_dir of line 269 will find
InitDir ==
    /\ dir \in Directories
    /\ key_map = EmptyMap
    /\ bytes_in_last_file = 0
    /\ active_file = 0
    /\ inactive_files = <<>>
    /\ readers = {}
    /\ writer = None
    /\ poisoned = FALSE
    /\ handle = "closed"
    /\ pc = [t \in Threads |-> "idle"]
    /\ op = [t \in Threads |-> NoOp]
    /\ out = [t \in Threads |-> NoResult]
    /\ mpc = "none"
    /\ scanned = EmptyMap
    /\ mres = "none"
    /\ closedBy = "none"
    /\ hist = [k \in Keys |-> <<>>]
    /\ acked = [k \in Keys |-> 0]
    /\ mark = [t \in Threads |-> 0]
    /\ before = [k \in Keys |-> Ok(None)]
    /\ nWrites = 0
    /\ nFailed = 0
    /\ prior = [t \in Threads |-> NoResult]

NextDir ==
    \/ OpenNew
    \/ OpenScan
    \/ OpenWLock

DirSpec == InitDir /\ [][NextDir]_vars

\* the segments of d, oldest first
Ascending(d) ==
    CHOOSE e \in Enumerations(d) : \A i, j \in DOMAIN e : i < j => e[i] < e[j]

\* the index a replay of d in ascending segment order builds
AscendingKeyMap(d) ==
    OpenKeyMap(DeserializeFiles(d, Ascending(d), <<>>).items, EmptyMap)

\* C12: whatever order the directory is enumerated in, open replays the
\* segments oldest first and takes the newest as the active segment, so the
\* index it has built answers every get as the ascending replay does.
C12_OpenOrderIndependent ==
    (handle = "opening" /\ mpc = "open_wlock") =>
        /\ active_file = MaxOf(DOMAIN dir)
        /\ \A k \in Keys :
             GetResult(scanned, dir, k) = GetResult(AscendingKeyMap(dir), dir, k)

\* C13: whenever no thread holds the write guard, every index entry names a
\* segment that exists, and the bytes [offset, offset + size) of that segment
\* are exactly one complete record whose key is the entry's key.
C13_IndexEntriesAddressRecords ==
    Quiet =>
        \A k \in DOMAIN key_map :
            LET vd == key_map[k] IN
            /\ vd.file_path \in DOMAIN dir
            /\ \E i \in 1..Len(dir[vd.file_path]) :
                 LET c == dir[vd.file_path][i] IN
                 /\ ChunkStart(dir[vd.file_path], i) = vd.offset
                 /\ Complete(c)
                 /\ c.n = vd.size
                 /\ c.rec.key = k

\* C15: compaction holds the write guard for its whole duration, from before
\* it scans the segments until it has switched the active segment.
C15_CompactionHoldsWriteGuard ==
    (handle = "dropping" /\ mpc \in {"cf_scan", "cf_wlock", "stuck"}) =>
        writer = Main

\* C17: remove is linearizable per key: while no append has failed, an Rm
\* record is never appended for a key that was never set or whose latest
\* record is already an Rm, so of concurrent remove(k) calls only one appends.
C17_RemoveLinearizable ==
    nFailed = 0 =>
        \A k \in Keys :
            \A i \in 1..Len(hist[k]) :
                hist[k][i] = None => (i > 1 /\ hist[k][i - 1] # None)

\* C18: a thread about to request the write guard holds no guard of the same
\* lock, and no operation is left blocked on the lock it holds itself.
C18_NoSelfLock ==
    /\ mpc \in {"cf_wlock", "open_wlock"} => (Main \notin readers /\ writer # Main)
    /\ mpc # "stuck"

\* C19: whenever no thread holds the write guard, bytes_in_last_file is the
\* byte length of the active segment file, also after an append that failed
\* having written some bytes.
C19_BytesMatchActiveLength ==
    Quiet => bytes_in_last_file = FileLen(dir[active_file])

C5_WhileNoAppendFailed == nFailed = 0 => C5_GetObservesAckedWrite
C6_WhileNoAppendFailed == nFailed = 0 => C6_ConcurrentGetSeesWrittenValue

\* C13 likewise holds on handles on which no append has failed.
C13_WhileNoAppendFailed == nFailed = 0 => C13_IndexEntriesAddressRecords

====
